---------------------------- MODULE Spec2Model ----------------------------
(***************************************************************************)
(* A model of nanoparticle_analyzer.py: bibliography-key generation with   *)
(* the uniqueness pass, whole-word detection of nanoparticle names,        *)
(* grouping and sorting of the combinations, and the rendering of the      *)
(* LaTeX table rows and the BibTeX entries.                                *)
(*                                                                         *)
(* Python strings are sequences of one-character strings.  A missing cell  *)
(* of a text column is NaN; a cell of a numeric column (Year, Page start,  *)
(* Page end) is <<"nan">>, <<"num", n>>, <<"str", s>> (text that int()     *)
(* rejects) or <<"inf">>.  The character "eacute" stands for U+00E9.       *)
(* The table has all the columns the script reads; the columns             *)
(* 'Source title', 'Volume', 'Publisher' and 'DOI', whose rendering cannot *)
(* raise, are left out of the entries.                                     *)
(***************************************************************************)
EXTENDS Integers, Sequences, FiniteSets, TLC

\* ------------------------------------------------------------- bounds
\* rows of the input table
MaxArticles == 3
\* abs(hash(title)) ranges over 1..MaxHash
MaxHash == 2
\* length of the text of a detection probe
MaxTextLen == 3

\* ------------------------------------------------------------- characters
UpperChars == <<"A","B","C","D","E","F","G","H","I","J","K","L","M","N","O","P","Q","R","S","T","U","V","W","X","Y","Z">>
LowerChars == <<"a","b","c","d","e","f","g","h","i","j","k","l","m","n","o","p","q","r","s","t","u","v","w","x","y","z">>
DigitChars == <<"0","1","2","3","4","5","6","7","8","9">>

Range(s) == {s[i] : i \in 1..Len(s)}

AlnumChars == Range(UpperChars) \cup Range(LowerChars) \cup Range(DigitChars) \cup {"eacute"}

\* str.isalnum() of one character
isalnum(c) == c \in AlnumChars

\* the regular expression class \w (str patterns: Unicode alphanumerics and "_")
IsWordChar(c) == isalnum(c) \/ c = "_"

\* str.isspace() of one character
isspace(c) == c = " "

\* str.lower() of one character, also the case folding of re.IGNORECASE
UpperSet == Range(UpperChars)

LowerOf == [c \in UpperSet |-> LowerChars[CHOOSE i \in 1..Len(UpperChars) : UpperChars[i] = c]]

LowerChar(c) == IF c \in UpperSet THEN LowerOf[c] ELSE c

lower(s) == [i \in 1..Len(s) |-> LowerChar(s[i])]

RECURSIVE Flatten(_)
\* ''.join(parts)
Flatten(parts) == IF parts = <<>> THEN <<>> ELSE Head(parts) \o Flatten(Tail(parts))

RECURSIVE Digits(_)
Digits(n) == IF n < 10 THEN <<DigitChars[n + 1]>> ELSE Digits(n \div 10) \o <<DigitChars[(n % 10) + 1]>>

\* str(n) of a non-negative int
str_int(n) == Digits(n)

\* ------------------------------------------------------------- cells
NaN == <<"NaN">>
NumNaN == <<"nan">>
Num(n) == <<"num", n>>
NumStr(s) == <<"str", s>>
NumInf == <<"inf">>

\* pd.notna(cell) of a numeric column
notna(cell) == cell[1] # "nan"

\* the exception int(cell) raises, "none" when it returns
int_raises(cell) ==
  CASE cell[1] = "num" -> "none"
    [] cell[1] = "inf" -> "OverflowError"
    [] OTHER -> "ValueError"

\* int(cell) when it returns
int_value(cell) == cell[2]

\* str(cell) of a text column: a missing cell is the float nan
str_cell(cell) == IF cell = NaN THEN <<"n","a","n">> ELSE cell

\* ------------------------------------------------------------- sanitize_text
\* unicodedata.normalize('NFKD', c).encode('ascii', 'ignore') of one character
ascii_of(c) == IF c = "eacute" THEN <<"e">> ELSE <<c>>

BibSpecials == {"&", "%", "$", "#", "_", "{", "}"}

escape_char(c) == IF c \in BibSpecials THEN <<"\\", c>> ELSE <<c>>

sanitize_text(text) ==
  IF text = NaN
    THEN <<>>
    ELSE LET ascii == Flatten([j \in 1..Len(text) |-> ascii_of(text[j])])
         IN Flatten([i \in 1..Len(ascii) |-> escape_char(ascii[i])])

\* ------------------------------------------------------------- generate_bib_key
RECURSIVE split_ws(_, _)
\* s.split(): the maximal runs of non-space characters; cur is the run being read
split_ws(s, cur) ==
  IF s = <<>>
    THEN IF cur = <<>> THEN <<>> ELSE <<cur>>
    ELSE IF isspace(Head(s))
      THEN (IF cur = <<>> THEN <<>> ELSE <<cur>>) \o split_ws(Tail(s), <<>>)
      ELSE split_ws(Tail(s), Append(cur, Head(s)))

split(s) == split_ws(s, <<>>)

\* s.split(',')[0]
before_comma(s) ==
  IF \E i \in 1..Len(s) : s[i] = ","
    THEN SubSeq(s, 1, (CHOOSE i \in 1..Len(s) : s[i] = "," /\ \A j \in 1..(i - 1) : s[j] # ",") - 1)
    ELSE s

\* ''.join(c for c in s if c.isalnum())
only_alnum(s) == SelectSeq(s, isalnum)

author_tokens(authors) == split(before_comma(sanitize_text(str_cell(authors))))
title_tokens(title) == split(sanitize_text(str_cell(title)))

clean_author(authors) ==
  LET tokens == author_tokens(authors) IN only_alnum(lower(tokens[Len(tokens)]))

clean_title(title) == only_alnum(lower(title_tokens(title)[1]))

\* a key generator that forgets the int() coercion of a float year
year_str_float(year) == IF notna(year) THEN str_int(int_value(year)) \o <<".","0">> ELSE <<"n","d">>
\* str(int(year)) if pd.notna(year) else "nd"
year_str(year) == IF notna(year) THEN str_int(int_value(year)) ELSE <<"n","d">>

\* the exception raised inside the try block of generate_bib_key, "none" when
\* the block returns; the three steps are evaluated in this order
key_raises(authors, year, title) ==
  CASE author_tokens(authors) = <<>> -> "IndexError"
    [] title_tokens(title) = <<>> -> "IndexError"
    [] notna(year) /\ int_raises(year) # "none" -> int_raises(year)
    [] OTHER -> "none"

Caught == {"IndexError", "AttributeError", "ValueError"}

\* f"ref_{abs(hash(title))}", h being abs(hash(title)) in this process
fallback_key(h) == <<"r","e","f","_">> \o str_int(h)

\* generate_bib_key when it returns; h is abs(hash(title)) in this process
generate_bib_key(authors, year, title, h) ==
  IF key_raises(authors, year, title) = "none"
    THEN clean_author(authors) \o year_str(year) \o clean_title(title)
    ELSE fallback_key(h)

\* ------------------------------------------------------------- configuration
NANOPARTICLE_MAP ==
  [name \in {"Alumina", "Titania", "Silica", "Copper Oxide", "Zinc Oxide", "Magnetite",
             "Zirconia", "Graphene", "Carbon Nanotube", "Diamond", "Silver", "Copper",
             "Gold", "MXene", "Molybdenum Disulfide"} |->
     CASE name = "Alumina" -> <<<<"A","l","2","O","3">>, <<"a","l","u","m","i","n","u","m"," ","o","x","i","d","e">>, <<"a","l","u","m","i","n","a">>>>
       [] name = "Titania" -> <<<<"T","i","O","2">>, <<"t","i","t","a","n","i","u","m"," ","d","i","o","x","i","d","e">>, <<"t","i","t","a","n","i","a">>>>
       [] name = "Silica" -> <<<<"S","i","O","2">>, <<"s","i","l","i","c","o","n"," ","d","i","o","x","i","d","e">>, <<"s","i","l","i","c","a">>>>
       [] name = "Copper Oxide" -> <<<<"C","u","O">>, <<"c","u","p","r","i","c"," ","o","x","i","d","e">>, <<"c","o","p","p","e","r"," ","o","x","i","d","e">>>>
       [] name = "Zinc Oxide" -> <<<<"Z","n","O">>, <<"z","i","n","c"," ","o","x","i","d","e">>>>
       [] name = "Magnetite" -> <<<<"F","e","3","O","4">>, <<"m","a","g","n","e","t","i","t","e">>, <<"i","r","o","n"," ","o","x","i","d","e">>>>
       [] name = "Zirconia" -> <<<<"Z","r","O","2">>, <<"z","i","r","c","o","n","i","u","m"," ","d","i","o","x","i","d","e">>, <<"z","i","r","c","o","n","i","a">>>>
       [] name = "Graphene" -> <<<<"g","r","a","p","h","e","n","e">>, <<"g","r","a","p","h","e","n","e"," ","n","a","n","o","p","l","a","t","e","l","e","t","s">>, <<"G","N","P">>, <<"g","r","a","p","h","e","n","e"," ","o","x","i","d","e">>, <<"G","O">>>>
       [] name = "Carbon Nanotube" -> <<<<"c","a","r","b","o","n"," ","n","a","n","o","t","u","b","e">>, <<"C","N","T">>, <<"S","W","C","N","T">>, <<"M","W","C","N","T">>>>
       [] name = "Diamond" -> <<<<"d","i","a","m","o","n","d">>, <<"n","a","n","o","-","d","i","a","m","o","n","d">>>>
       [] name = "Silver" -> <<<<"s","i","l","v","e","r">>, <<"A","g">>>>
       [] name = "Copper" -> <<<<"c","o","p","p","e","r">>, <<"C","u">>>>
       [] name = "Gold" -> <<<<"g","o","l","d">>, <<"A","u">>>>
       [] name = "MXene" -> <<<<"m","x","e","n","e">>, <<"t","i","3","c","2","t","x">>>>
       [] name = "Molybdenum Disulfide" -> <<<<"M","o","S","2">>, <<"m","o","l","y","b","d","e","n","u","m"," ","d","i","s","u","l","f","i","d","e">>>>]

LATEX_SYMBOL_MAP ==
  [name \in DOMAIN NANOPARTICLE_MAP |->
     CASE name = "Alumina" -> "\\ce{Al2O3}"
       [] name = "Titania" -> "\\ce{TiO2}"
       [] name = "Silica" -> "\\ce{SiO2}"
       [] name = "Copper Oxide" -> "\\ce{CuO}"
       [] name = "Zinc Oxide" -> "\\ce{ZnO}"
       [] name = "Magnetite" -> "\\ce{Fe3O4}"
       [] name = "Zirconia" -> "\\ce{ZrO2}"
       [] name = "Graphene" -> "Graphene"
       [] name = "Carbon Nanotube" -> "CNT"
       [] name = "Diamond" -> "Diamond"
       [] name = "Silver" -> "\\ce{Ag}"
       [] name = "Copper" -> "\\ce{Cu}"
       [] name = "Gold" -> "\\ce{Au}"
       [] name = "MXene" -> "MXene"
       [] name = "Molybdenum Disulfide" -> "\\ce{MoS2}"]

\* the canonical names in the order Python's sorted() gives strings (code points)
NamesInOrder ==
  <<"Alumina", "Carbon Nanotube", "Copper", "Copper Oxide", "Diamond", "Gold", "Graphene",
    "MXene", "Magnetite", "Molybdenum Disulfide", "Silica", "Silver", "Titania",
    "Zinc Oxide", "Zirconia">>

\* ------------------------------------------------------------- detection
\* ' '.join of the four text columns after fillna('')
combined_text(row) ==
  (IF row.Title = NaN THEN <<>> ELSE row.Title) \o <<" ">>
    \o (IF row.Abstract = NaN THEN <<>> ELSE row.Abstract) \o <<" ">>
    \o (IF row.Keywords = NaN THEN <<>> ELSE row.Keywords) \o <<" ">>
    \o (IF row.IndexKeywords = NaN THEN <<>> ELSE row.IndexKeywords)

\* \b between text[p-1] and text[p]: exactly one of the two is a \w character
word_boundary(text, p) ==
  (p - 1 >= 1 /\ IsWordChar(text[p - 1])) # (p <= Len(text) /\ IsWordChar(text[p]))

\* the positions of text where \b matches
word_boundaries(text) == {p \in 1..(Len(text) + 1) : word_boundary(text, p)}

\* the literal re.escape(v) matches at position i, letters compared up to case
literal_at(v, text, i) == \A k \in 1..Len(v) : LowerChar(text[i + k - 1]) = LowerChar(v[k])

\* a search that leaves out re.IGNORECASE
re_search_case(v, text, bs) ==
  \E i \in bs : i + Len(v) \in bs /\ \A k \in 1..Len(v) : text[i + k - 1] = v[k]
\* re.search(r'\b' + re.escape(v) + r'\b', text, re.IGNORECASE) finds a match;
\* bs is word_boundaries(text)
re_search(v, text, bs) == \E i \in bs : i + Len(v) \in bs /\ literal_at(v, text, i)

\* the set nanoparticles_found of one row
found_in(text) ==
  LET bs == word_boundaries(text)
  IN {name \in DOMAIN NANOPARTICLE_MAP :
        \E k \in 1..Len(NANOPARTICLE_MAP[name]) : re_search(NANOPARTICLE_MAP[name][k], text, bs)}

\* tuple(sorted(list(nanoparticles_found)))
sorted_tuple(found) == SelectSeq(NamesInOrder, LAMBDA n : n \in found)

\* ------------------------------------------------------------- the run
\* a uniqueness pass that suffixes the number of earlier occurrences (X, X1, X2)
unique_key_from_one(base_key, count) == IF count = 0 THEN base_key ELSE base_key \o str_int(count)
\* the key the uniqueness pass gives a base key produced count times before
unique_key_of(base_key, count) == IF count = 0 THEN base_key ELSE base_key \o str_int(count + 1)

\* seen_keys_count[base_key] of a defaultdict(int)
count_of(seen, base_key) == IF base_key \in DOMAIN seen THEN seen[base_key] ELSE 0

\* a grouping that puts the newest key first
add_to_group_front(groups, combo, key) ==
  IF \E g \in 1..Len(groups) : groups[g].combo = combo
    THEN [g \in 1..Len(groups) |->
            IF groups[g].combo = combo
              THEN [groups[g] EXCEPT !.keys = <<key>> \o @]
              ELSE groups[g]]
    ELSE Append(groups, [combo |-> combo, keys |-> <<key>>])
\* combination_keys[combo_key].append(bib_key); the dict keeps insertion order
add_to_group(groups, combo, key) ==
  IF \E g \in 1..Len(groups) : groups[g].combo = combo
    THEN [g \in 1..Len(groups) |->
            IF groups[g].combo = combo
              THEN [groups[g] EXCEPT !.keys = Append(@, key)]
              ELSE groups[g]]
    ELSE Append(groups, [combo |-> combo, keys |-> <<key>>])

\* the bucket of article_counts a row with num_found names adds to
bucket_of(num_found) ==
  CASE num_found = 1 -> "mono"
    [] num_found = 2 -> "binary"
    [] num_found = 3 -> "ternary"
    [] OTHER -> "other"

\* (len(x['combo']), x['freq']) of a is smaller than that of b
key_less(a, b) ==
  \/ Len(a.combo) < Len(b.combo)
  \/ Len(a.combo) = Len(b.combo) /\ a.freq < b.freq

\* an insertion that puts x in front of the items with an equal key, as
\* reversing an ascending sort does
insert_desc_unstable(s, x) ==
  LET later == {p \in 1..Len(s) : ~key_less(x, s[p])}
      at == IF later = {} THEN Len(s) + 1 ELSE CHOOSE p \in later : \A q \in later : p <= q
  IN SubSeq(s, 1, at - 1) \o <<x>> \o SubSeq(s, at, Len(s))
\* x put into the descending list s behind every item that does not sort after it
insert_desc(s, x) ==
  LET later == {p \in 1..Len(s) : key_less(s[p], x)}
      at == IF later = {} THEN Len(s) + 1 ELSE CHOOSE p \in later : \A q \in later : p <= q
  IN SubSeq(s, 1, at - 1) \o <<x>> \o SubSeq(s, at, Len(s))

RECURSIVE sort_desc(_, _)
sort_desc(items, acc) ==
  IF items = <<>> THEN acc ELSE sort_desc(Tail(items), insert_desc(acc, Head(items)))

\* sorted([...], key=lambda x: (len(x['combo']), x['freq']), reverse=True): a stable
\* sort, so items with equal keys keep the order of combination_keys.items()
sorted_table(groups) ==
  sort_desc([g \in 1..Len(groups) |->
               [combo |-> groups[g].combo, freq |-> Len(groups[g].keys), keys |-> groups[g].keys]],
            <<>>)

\* one line of latex_table_rows: the ' + '-joined symbols, the frequency, the \cite keys
table_row(item) ==
  [label |-> [k \in 1..Len(item.combo) |-> LATEX_SYMBOL_MAP[item.combo[k]]],
   freq |-> item.freq,
   cite |-> item.keys]

\* all_ordered_cite_keys after the loop over table_data
cite_keys_of(table) == Flatten([t \in 1..Len(table) |-> table[t].keys])

\* text.replace(',', ' and')
replace_commas(text) == Flatten([i \in 1..Len(text) |-> IF text[i] = "," THEN <<" ","a","n","d">> ELSE <<text[i]>>])

\* the exception raised while the entry of a key is built from the rows carrying
\* it, "none" when the entry is built.  With more than one row .loc[key] is a
\* DataFrame and the truth value of pd.notna(<Series>) raises ValueError.
entry_raises(rows) ==
  IF Len(rows) # 1 THEN "ValueError"
  ELSE LET article == rows[1] IN
    CASE notna(article.PageStart) /\ notna(article.PageEnd) /\ int_raises(article.PageStart) # "none"
           -> int_raises(article.PageStart)
      [] notna(article.PageStart) /\ notna(article.PageEnd) /\ int_raises(article.PageEnd) # "none"
           -> int_raises(article.PageEnd)
      [] int_raises(article.Year) # "none" -> int_raises(article.Year)
      [] OTHER -> "none"

\* the pages field of an entry
pages_of(article) ==
  IF notna(article.PageStart) /\ notna(article.PageEnd)
    THEN str_int(int_value(article.PageStart)) \o <<"-","-">> \o str_int(int_value(article.PageEnd))
    ELSE <<>>

\* the @article entry of a key
entry_of(key, article) ==
  [key |-> key,
   title |-> sanitize_text(article.Title),
   author |-> replace_commas(sanitize_text(article.Authors)),
   pages |-> pages_of(article),
   year |-> str_int(int_value(article.Year))]

\* a bibliography loop with the try statement around it: the first failure ends it
after_warning_break(i, n) == n + 1
\* the index of the next key of the bibliography loop after the except clause
\* at index i of n keys has printed its warning
after_warning(i, n) == i + 1

\* ------------------------------------------------------------- state
VARIABLES
  df,                    \* the rows of the CSV file
  pc,                    \* the block of analyze_literature that runs next
  idx,                   \* the position of the running loop
  run,                   \* 1 in the first process, 2 in the second on the same file
  hash_memo,             \* hash() of this process, on the titles hashed so far
  seen_keys_count, base_keys, bib_keys,
  detected,              \* nanoparticles_found of the rows scanned so far
  combination_keys, article_counts,
  table_data, latex_table_rows, all_ordered_cite_keys, unique_ordered_keys,
  final_bib_content,
  warnings,              \* the keys whose entry the except clause reported
  written, references_bib, latex_table_tex,
  first_output           \* the two files the first process wrote

vars ==
  <<df, pc, idx, run, hash_memo, seen_keys_count, base_keys, bib_keys, detected,
    combination_keys, article_counts, table_data, latex_table_rows,
    all_ordered_cite_keys, unique_ordered_keys, final_bib_content, warnings,
    written, references_bib, latex_table_tex, first_output>>

Article(authors, year, title, abstract, pstart, pend) ==
  [Authors |-> authors, Year |-> year, Title |-> title, Abstract |-> abstract,
   Keywords |-> NaN, IndexKeywords |-> NaN, PageStart |-> pstart, PageEnd |-> pend]

\* the rows an input file is made of
Pool ==
  <<Article(<<"S","m","i","t","h"," ","J",".",","," ","D","o","e"," ","A",".">>, Num(2020), <<"A"," ","g","o","l","d"," ","s","t","u","d","y">>, NaN, Num(1), Num(9)),
    Article(<<"S","m","i","t","h"," ","J",".",","," ","D","o","e"," ","A",".">>, Num(2020), <<"A"," ","s","i","l","v","e","r"," ","&"," ","A","u"," ","f","i","l","m","_","x">>, NaN, NumNaN, Num(5)),
    Article(<<"S","m","i","t","h"," ","J",".">>, Num(2020), <<"A","2"," ","A","g"," ","n","o","t","e">>, NaN, NumStr(<<"e","1","2">>), Num(20)),
    Article(<<" ">>, Num(2018), <<"A","u","t","h","o","r","s">>, NaN, Num(2), Num(3)),
    Article(<<"K","."," ","P","eacute","r","e","z">>, NumStr(<<"n",".","d",".">>), <<"Z","n","O"," ","T","i","O","2"," ","A","l","2","O","3"," ","m","i","x">>, NaN, Num(7), Num(8)),
    Article(NaN, NumNaN, NaN, <<"g","r","a","p","h","e","n","e"," ","o","x","i","d","e"," ","G","O","_","x">>, NumNaN, NumNaN),
    Article(<<"K","i","m"," ","H",".">>, NumInf, <<"G","o","l","d">>, NaN, Num(2), Num(3))>>

EmptyMap == [x \in {} |-> 0]

\* the state of a process at the first line of analyze_literature
Start ==
  /\ pc = "keys"
  /\ idx = 1
  /\ hash_memo = EmptyMap
  /\ seen_keys_count = EmptyMap
  /\ base_keys = <<>>
  /\ bib_keys = <<>>
  /\ detected = <<>>
  /\ combination_keys = <<>>
  /\ article_counts = [mono |-> 0, binary |-> 0, ternary |-> 0, other |-> 0]
  /\ table_data = <<>>
  /\ latex_table_rows = <<>>
  /\ all_ordered_cite_keys = <<>>
  /\ unique_ordered_keys = <<>>
  /\ final_bib_content = <<>>
  /\ warnings = <<>>
  /\ written = {}
  /\ references_bib = <<>>
  /\ latex_table_tex = <<>>

\* read_csv gives a Year column float cells (inf among them) only when no cell of
\* it holds text; in a column with text the cells are strings, or nan
YearColumnTyped(rows) ==
  ~(\E i, j \in 1..Len(rows) : rows[i].Year[1] = "str" /\ rows[j].Year[1] = "inf")

Init ==
  /\ \E n \in 1..MaxArticles : \E f \in [1..n -> 1..Len(Pool)] :
       /\ df = [i \in 1..n |-> Pool[f[i]]]
       /\ YearColumnTyped([i \in 1..n |-> Pool[f[i]]])
  /\ run = 1
  /\ first_output = [table |-> <<>>, bib |-> <<>>]
  /\ Start

\* the values abs(hash(title)) can take in this process
hash_choices(title) ==
  IF title \in DOMAIN hash_memo THEN {hash_memo[title]} ELSE 1..MaxHash

\* one iteration of the loop of the uniqueness pass
KeyRow ==
  /\ pc = "keys"
  /\ LET raised == key_raises(df[idx].Authors, df[idx].Year, df[idx].Title)
     IN /\ raised \in Caught \cup {"none"}
        /\ \E h \in IF raised = "none" THEN {0} ELSE hash_choices(df[idx].Title) :
             LET base_key == generate_bib_key(df[idx].Authors, df[idx].Year, df[idx].Title, h)
                 count == count_of(seen_keys_count, base_key)
             IN /\ hash_memo' = IF h = 0 THEN hash_memo ELSE (df[idx].Title :> h) @@ hash_memo
                /\ seen_keys_count' = (base_key :> (count + 1)) @@ seen_keys_count
                /\ base_keys' = Append(base_keys, base_key)
                /\ bib_keys' = Append(bib_keys, unique_key_of(base_key, count))
  /\ IF idx = Len(df) THEN pc' = "detect" /\ idx' = 1 ELSE pc' = pc /\ idx' = idx + 1
  /\ UNCHANGED <<df, run, detected, combination_keys, article_counts, table_data,
                 latex_table_rows, all_ordered_cite_keys, unique_ordered_keys,
                 final_bib_content, warnings, written, references_bib, latex_table_tex,
                 first_output>>

\* generate_bib_key raises an exception its except clause does not name
KeyRowCrash ==
  /\ pc = "keys"
  /\ key_raises(df[idx].Authors, df[idx].Year, df[idx].Title) \notin Caught \cup {"none"}
  /\ pc' = "crashed"
  /\ UNCHANGED <<df, idx, run, hash_memo, seen_keys_count, base_keys, bib_keys, detected,
                 combination_keys, article_counts, table_data, latex_table_rows,
                 all_ordered_cite_keys, unique_ordered_keys, final_bib_content, warnings,
                 written, references_bib, latex_table_tex, first_output>>

\* one iteration of the detection loop
DetectRow ==
  /\ pc = "detect"
  /\ LET found == found_in(combined_text(df[idx]))
     IN /\ detected' = Append(detected, found)
        /\ IF Cardinality(found) > 0
             THEN /\ combination_keys' =
                       add_to_group(combination_keys, sorted_tuple(found), bib_keys[idx])
                  /\ article_counts' =
                       [article_counts EXCEPT ![bucket_of(Cardinality(found))] = @ + 1]
             ELSE UNCHANGED <<combination_keys, article_counts>>
  /\ IF idx = Len(df) THEN pc' = "sort" /\ idx' = 1 ELSE pc' = pc /\ idx' = idx + 1
  /\ UNCHANGED <<df, run, hash_memo, seen_keys_count, base_keys, bib_keys, table_data,
                 latex_table_rows, all_ordered_cite_keys, unique_ordered_keys,
                 final_bib_content, warnings, written, references_bib, latex_table_tex,
                 first_output>>

SortTable ==
  /\ pc = "sort"
  /\ table_data' = sorted_table(combination_keys)
  /\ pc' = "rows"
  /\ UNCHANGED <<df, idx, run, hash_memo, seen_keys_count, base_keys, bib_keys, detected,
                 combination_keys, article_counts, latex_table_rows, all_ordered_cite_keys,
                 unique_ordered_keys, final_bib_content, warnings, written, references_bib,
                 latex_table_tex, first_output>>

\* a removal of repeated keys that returns the keys in the order of their rows
keys_in_input_order(keys) ==
  LET rows == {i \in 1..Len(bib_keys) :
                 /\ bib_keys[i] \in Range(keys)
                 /\ \A j \in 1..(i - 1) : bib_keys[j] # bib_keys[i]}
      nth(k) == CHOOSE i \in rows : Cardinality({j \in rows : j < i}) = k - 1
  IN [k \in 1..Cardinality(rows) |-> bib_keys[nth(k)]]
\* list(dict.fromkeys(keys)): the first occurrence of every key, in order
dict_fromkeys(keys) ==
  LET firsts == {i \in 1..Len(keys) : \A j \in 1..(i - 1) : keys[j] # keys[i]}
      nth(k) == CHOOSE i \in firsts : Cardinality({j \in firsts : j < i}) = k - 1
  IN [k \in 1..Cardinality(firsts) |-> keys[nth(k)]]

\* the loop over table_data and the removal of repeated keys
TableRows ==
  /\ pc = "rows"
  /\ latex_table_rows' = [t \in 1..Len(table_data) |-> table_row(table_data[t])]
  /\ all_ordered_cite_keys' = cite_keys_of(table_data)
  /\ unique_ordered_keys' = dict_fromkeys(cite_keys_of(table_data))
  /\ pc' = IF cite_keys_of(table_data) = <<>> THEN "save" ELSE "bib"
  /\ idx' = 1
  /\ UNCHANGED <<df, run, hash_memo, seen_keys_count, base_keys, bib_keys, detected,
                 combination_keys, article_counts, table_data, final_bib_content, warnings,
                 written, references_bib, latex_table_tex, first_output>>

\* key_to_article_map.loc[key]: the rows whose bib_key is key, in input order
rows_of(key) == SelectSeq(df, LAMBDA r : \E i \in 1..Len(df) : df[i] = r /\ bib_keys[i] = key)

\* one iteration of the bibliography loop
BibEntry ==
  /\ pc = "bib"
  /\ LET key == unique_ordered_keys[idx]
         rows == rows_of(key)
         next == IF entry_raises(rows) = "none"
                   THEN idx + 1
                   ELSE after_warning(idx, Len(unique_ordered_keys))
     IN /\ IF entry_raises(rows) = "none"
             THEN /\ final_bib_content' = Append(final_bib_content, entry_of(key, rows[1]))
                  /\ UNCHANGED warnings
             ELSE /\ warnings' = Append(warnings, key)
                  /\ UNCHANGED final_bib_content
        /\ IF next > Len(unique_ordered_keys)
             THEN pc' = "save" /\ idx' = 1
             ELSE pc' = pc /\ idx' = next
  /\ UNCHANGED <<df, run, hash_memo, seen_keys_count, base_keys, bib_keys, detected,
                 combination_keys, article_counts, table_data, latex_table_rows,
                 all_ordered_cite_keys, unique_ordered_keys, written, references_bib,
                 latex_table_tex, first_output>>

\* references.bib, then latex_table.tex
SaveFiles ==
  /\ pc = "save"
  /\ references_bib' = final_bib_content
  /\ latex_table_tex' = latex_table_rows
  /\ written' = {"references.bib", "latex_table.tex"}
  /\ pc' = "done"
  /\ UNCHANGED <<df, idx, run, hash_memo, seen_keys_count, base_keys, bib_keys, detected,
                 combination_keys, article_counts, table_data, latex_table_rows,
                 all_ordered_cite_keys, unique_ordered_keys, final_bib_content, warnings,
                 first_output>>

\* the script is run again, in a new process, on the same CSV file
Rerun ==
  /\ pc = "done"
  /\ run = 1
  /\ run' = 2
  /\ first_output' = [table |-> latex_table_tex, bib |-> references_bib]
  /\ pc' = "keys"
  /\ idx' = 1
  /\ hash_memo' = EmptyMap
  /\ seen_keys_count' = EmptyMap
  /\ base_keys' = <<>>
  /\ bib_keys' = <<>>
  /\ detected' = <<>>
  /\ combination_keys' = <<>>
  /\ article_counts' = [mono |-> 0, binary |-> 0, ternary |-> 0, other |-> 0]
  /\ table_data' = <<>>
  /\ latex_table_rows' = <<>>
  /\ all_ordered_cite_keys' = <<>>
  /\ unique_ordered_keys' = <<>>
  /\ final_bib_content' = <<>>
  /\ warnings' = <<>>
  /\ written' = {}
  /\ references_bib' = <<>>
  /\ latex_table_tex' = <<>>
  /\ UNCHANGED df

Next ==
  \/ KeyRow
  \/ KeyRowCrash
  \/ DetectRow
  \/ SortTable
  \/ TableRows
  \/ BibEntry
  \/ SaveFiles

\* one run of the script
Spec == Init /\ [][Next]_vars

NextTwice ==
  \/ KeyRow
  \/ KeyRowCrash
  \/ DetectRow
  \/ SortTable
  \/ TableRows
  \/ BibEntry
  \/ SaveFiles
  \/ Rerun

\* two runs of the script, one process after the other, on the same input
SpecTwice == Init /\ [][NextTwice]_vars

\* ------------------------------------------------------------- detection probes
ProbeChars == {"A", "a", "u", "U", "g", "s", " ", "_"}

ProbeTexts == UNION {[1..n -> ProbeChars] : n \in 1..MaxTextLen}

\* a table of one row whose only text is a probe, in its first or its last text column
InitDetect ==
  /\ \E text \in ProbeTexts : \E first \in BOOLEAN :
       df = <<[Authors |-> <<"K","i","m"," ","H",".">>, Year |-> Num(2021),
               Title |-> IF first THEN text ELSE NaN, Abstract |-> NaN, Keywords |-> NaN,
               IndexKeywords |-> IF first THEN NaN ELSE text,
               PageStart |-> NumNaN, PageEnd |-> NumNaN]>>
  /\ run = 1
  /\ first_output = [table |-> <<>>, bib |-> <<>>]
  /\ Start

NextDetect ==
  \/ KeyRow
  \/ DetectRow

\* the key pass and the detection pass over a probe
SpecDetect == InitDetect /\ [][NextDetect]_vars

\* ------------------------------------------------------------- properties
KeyPassDone == pc \in {"detect", "sort", "rows", "bib", "save", "done"}
DetectPassDone == pc \in {"sort", "rows", "bib", "save", "done"}
SortDone == pc \in {"rows", "bib", "save", "done"}

\* the rows scanned so far whose detected set is S
RowsDetecting(S) == {i \in 1..Len(detected) : detected[i] = S}

\* the bibliography keys of the rows I, in input order
KeysOfRows(I) ==
  LET nth(k) == CHOOSE i \in I : Cardinality({j \in I : j < i}) = k - 1
  IN [k \in 1..Cardinality(I) |-> bib_keys[nth(k)]]

\* the position of the first occurrence of x in the sequence s
FirstPos(s, x) == CHOOSE p \in 1..Len(s) : s[p] = x /\ \A q \in 1..(p - 1) : s[q] # x

IsFallbackKey(key) == Len(key) >= 4 /\ SubSeq(key, 1, 4) = <<"r","e","f","_">>

\* C1: after the uniqueness pass the keys of distinct articles are pairwise distinct.
C1_KeysDistinct ==
  KeyPassDone => \A i, j \in 1..Len(bib_keys) : i # j => bib_keys[i] # bib_keys[j]

\* C2: the first article producing a base key gets it unmodified and the N-th
\* (N >= 2) gets it suffixed with the decimal N, N counting the articles up to and
\* including this one that produced the base key.
C2_RunningSuffix ==
  /\ Len(bib_keys) = Len(base_keys)
  /\ \A i \in 1..Len(bib_keys) :
       LET N == Cardinality({j \in 1..i : base_keys[j] = base_keys[i]})
       IN bib_keys[i] = IF N = 1 THEN base_keys[i] ELSE base_keys[i] \o <<DigitChars[N + 1]>>

C2_Witness ==
  /\ KeyPassDone
  /\ \E i \in 1..Len(bib_keys) :
       /\ Cardinality({j \in 1..i : base_keys[j] = base_keys[i]}) = 3
       /\ bib_keys[i] = base_keys[i] \o <<"3">>

\* two characters are the same letter up to case, or the same character
SameLetter(a, b) ==
  a = b \/ \E n \in 1..Len(UpperChars) : {a, b} = {UpperChars[n], LowerChars[n]}

\* v occurs in text, up to case, with no \w character right before or right after it
WholeWordOccurrence(v, text) ==
  \E i \in 1..(Len(text) - Len(v) + 1) :
    /\ \A k \in 1..Len(v) : SameLetter(text[i + k - 1], v[k])
    /\ i = 1 \/ ~IsWordChar(text[i - 1])
    /\ i + Len(v) > Len(text) \/ ~IsWordChar(text[i + Len(v)])

\* C3: a canonical name is in a row's detected set iff one of its variants occurs
\* in the row's combined text as a case-insensitive whole word.
C3_WholeWordDetection ==
  \A i \in 1..Len(detected) : \A name \in DOMAIN NANOPARTICLE_MAP :
    name \in detected[i] <=>
      \E k \in 1..Len(NANOPARTICLE_MAP[name]) :
        WholeWordOccurrence(NANOPARTICLE_MAP[name][k], combined_text(df[i]))

C3_Witness ==
  /\ Len(detected) = 1
  /\ detected[1] = {"Gold"}
  /\ "A" \notin Range(combined_text(df[1]))
  /\ "U" \in Range(combined_text(df[1]))

\* C4: after the detection pass every group holds, in input order, exactly the
\* keys of the rows whose detected set is the group's set of names; every row
\* with a non-empty detected set has its group, no two groups have the same set,
\* no group belongs to the empty set, and after the sort a group's frequency is
\* the number of those rows.
C4_Groups ==
  /\ DetectPassDone =>
       /\ \A g \in 1..Len(combination_keys) :
            /\ combination_keys[g].combo # <<>>
            /\ combination_keys[g].keys = KeysOfRows(RowsDetecting(Range(combination_keys[g].combo)))
            /\ \A h \in 1..Len(combination_keys) :
                 Range(combination_keys[h].combo) = Range(combination_keys[g].combo) => h = g
       /\ \A i \in 1..Len(detected) :
            detected[i] # {} =>
              \E g \in 1..Len(combination_keys) : Range(combination_keys[g].combo) = detected[i]
  /\ SortDone =>
       /\ Len(table_data) = Len(combination_keys)
       /\ \A t \in 1..Len(table_data) :
            /\ table_data[t].freq = Cardinality(RowsDetecting(Range(table_data[t].combo)))
            /\ table_data[t].keys = KeysOfRows(RowsDetecting(Range(table_data[t].combo)))

C4_Witness ==
  /\ SortDone
  /\ \E g \in 1..Len(combination_keys) :
       Len(combination_keys[g].keys) >= 2 /\ Len(combination_keys[g].combo) >= 2
  /\ \E i \in 1..Len(detected) : detected[i] = {}

\* the position of the group of a table item in combination_keys
SeenAt(item) == CHOOSE g \in 1..Len(combination_keys) : combination_keys[g].combo = item.combo

\* C5: in the table a group with more names precedes one with fewer, among
\* groups of equal size the higher frequency comes first, and groups equal in
\* both keep the order in which the detection pass first met them.
C5_TableOrder ==
  SortDone =>
    /\ Len(table_data) = Len(combination_keys)
    /\ \A t \in 1..Len(table_data) :
         \E g \in 1..Len(combination_keys) : combination_keys[g].combo = table_data[t].combo
    /\ \A i, j \in 1..Len(table_data) :
         i < j =>
           \/ Len(table_data[i].combo) > Len(table_data[j].combo)
           \/ /\ Len(table_data[i].combo) = Len(table_data[j].combo)
              /\ table_data[i].freq > table_data[j].freq
           \/ /\ Len(table_data[i].combo) = Len(table_data[j].combo)
              /\ table_data[i].freq = table_data[j].freq
              /\ SeenAt(table_data[i]) < SeenAt(table_data[j])

C5_Witness ==
  /\ SortDone
  /\ \E i, j \in 1..Len(table_data) :
       /\ i < j
       /\ Len(table_data[i].combo) > Len(table_data[j].combo)
       /\ table_data[i].freq < table_data[j].freq
       /\ SeenAt(table_data[i]) > SeenAt(table_data[j])

\* a crash can only come from the key pass
NoCrashAfterKeys == pc = "crashed" => Len(bib_keys) < Len(df)

C7_SameOutput ==
  (run = 2 /\ pc = "done") =>
    /\ latex_table_tex = first_output.table
    /\ references_bib = first_output.bib

\* the keys the table cites
CitedInTable == UNION {Range(latex_table_tex[t].cite) : t \in 1..Len(latex_table_tex)}

C10_YearZeroEmptyPages ==
  pc = "done" =>
    \A i \in 1..Len(df) :
      (/\ bib_keys[i] \in CitedInTable
       /\ \A j \in 1..Len(df) : bib_keys[j] = bib_keys[i] => j = i
       /\ df[i].Year[1] \in {"num", "nan"}) =>
        \E e \in 1..Len(references_bib) :
          /\ references_bib[e].key = bib_keys[i]
          /\ references_bib[e].year = IF df[i].Year[1] = "num" THEN str_int(df[i].Year[2]) ELSE <<"0">>
          /\ references_bib[e].pages =
               IF df[i].PageStart[1] = "num" /\ df[i].PageEnd[1] = "num"
                 THEN str_int(df[i].PageStart[2]) \o <<"-","-">> \o str_int(df[i].PageEnd[2])
                 ELSE <<>>

=============================================================================
